---- MODULE Spec2Model ----
(***************************************************************************)
(* Heightmap Viewer (src/assets/main.js): the heightmap synthesis          *)
(* pipeline (amplitude schedule, octave noise, min-max normalisation) and  *)
(* the event handlers that drive it.                                       *)
(*                                                                         *)
(* JavaScript numbers are binary floating point.  They are modelled as     *)
(* binary floating point with a mantissa of Precision bits (the code's     *)
(* doubles have 53), round-to-nearest-even after every operation, an       *)
(* unbounded exponent, and the special values Infinity, -Infinity and NaN. *)
(* Signed zero is not distinguished.                                       *)
(***************************************************************************)
EXTENDS Integers, Sequences, FiniteSets, TLC

(* Bits of mantissa of the modelled floating-point numbers. *)
Precision == 11

----------------------------------------------------------------------------
(* Floating-point numbers: [c, m, e].  c = 0: the finite number m * 2^e,   *)
(* with m odd or m = e = 0; c = 1: Infinity (m = 1) or -Infinity (m = -1); *)
(* c = 2: NaN.                                                             *)

Pow2(n) == 2 ^ n

(* Number of bits of n >= 0. *)
RECURSIVE BitLen(_)
BitLen(n) ==
    IF n >= 65536 THEN 16 + BitLen(n \div 65536)
    ELSE IF n >= 256 THEN 8 + BitLen(n \div 256)
    ELSE IF n >= 16 THEN 4 + BitLen(n \div 16)
    ELSE IF n >= 4 THEN 2 + BitLen(n \div 4)
    ELSE IF n >= 2 THEN 2
    ELSE n

Abs(n) == IF n < 0 THEN -n ELSE n

Sign(n) == IF n < 0 THEN -1 ELSE IF n > 0 THEN 1 ELSE 0

NaN == [c |-> 2, m |-> 0, e |-> 0]

Inf(s) == [c |-> 1, m |-> s, e |-> 0]

Zero == [c |-> 0, m |-> 0, e |-> 0]

IsNaN(a) == a.c = 2

IsFinite(a) == a.c = 0

(* m * 2^e with the trailing zero bits of m moved into the exponent. *)
RECURSIVE Canon(_, _)
Canon(m, e) ==
    IF m = 0 THEN Zero
    ELSE IF m % 256 = 0 THEN Canon(m \div 256, e + 8)
    ELSE IF m % 16 = 0 THEN Canon(m \div 16, e + 4)
    ELSE IF m % 2 = 0 THEN Canon(m \div 2, e + 1)
    ELSE [c |-> 0, m |-> m, e |-> e]

(* m * 2^e rounded to Precision bits, ties to even. *)
Round(m, e) ==
    LET a == Abs(m)
        s == BitLen(a) - Precision
    IN  IF s <= 0 THEN Canon(m, e)
        ELSE LET q == a \div Pow2(s)
                 r == a % Pow2(s)
                 h == Pow2(s - 1)
                 up == r > h \/ (r = h /\ q % 2 = 1)
             IN  Canon(Sign(m) * (IF up THEN q + 1 ELSE q), e + s)

(* The number n (an integer the code holds exactly). *)
FromInt(n) == Round(n, 0)

(* n / 2, for the half-step values of the sliders. *)
Halves(n) == Round(n, -1)

FNeg(a) == [a EXCEPT !.m = -a.m]

(* Position of the leading bit of a finite non-zero number. *)
Top(a) == a.e + BitLen(Abs(a.m))

FAdd(a, b) ==
    IF IsNaN(a) \/ IsNaN(b) THEN NaN
    ELSE IF a.c = 1 /\ b.c = 1 THEN (IF a.m = b.m THEN a ELSE NaN)
    ELSE IF a.c = 1 THEN a
    ELSE IF b.c = 1 THEN b
    ELSE IF a.m = 0 THEN b
    ELSE IF b.m = 0 THEN a
    ELSE IF Top(a) - Top(b) > Precision + 3 THEN a
    ELSE IF Top(b) - Top(a) > Precision + 3 THEN b
    ELSE LET e == IF a.e < b.e THEN a.e ELSE b.e
         IN  Round(a.m * Pow2(a.e - e) + b.m * Pow2(b.e - e), e)

FSub(a, b) == FAdd(a, FNeg(b))

FMul(a, b) ==
    IF IsNaN(a) \/ IsNaN(b) THEN NaN
    ELSE IF a.c = 1 \/ b.c = 1
         THEN (IF a.m = 0 \/ b.m = 0 THEN NaN ELSE Inf(Sign(a.m) * Sign(b.m)))
    ELSE Round(a.m * b.m, a.e + b.e)

FDiv(a, b) ==
    IF IsNaN(a) \/ IsNaN(b) THEN NaN
    ELSE IF a.c = 1 THEN (IF b.c = 1 THEN NaN
                          ELSE Inf(a.m * (IF b.m < 0 THEN -1 ELSE 1)))
    ELSE IF b.c = 1 THEN Zero
    ELSE IF b.m = 0 THEN (IF a.m = 0 THEN NaN ELSE Inf(Sign(a.m)))
    ELSE IF a.m = 0 THEN Zero
    ELSE LET ja == Precision - BitLen(Abs(a.m))
             jb == Precision - BitLen(Abs(b.m))
             n  == Abs(a.m) * Pow2(ja) * Pow2(Precision + 1)
             d  == Abs(b.m) * Pow2(jb)
             q  == n \div d
             st == IF n % d = 0 THEN 0 ELSE 1
         IN  Round(Sign(a.m) * Sign(b.m) * (2 * q + st),
                   (a.e - ja) - (b.e - jb) - (Precision + 1) - 1)

(* a < b, a <= b and a = b as the JavaScript comparisons (false on NaN). *)
FLt(a, b) ==
    /\ ~IsNaN(a) /\ ~IsNaN(b)
    /\ LET d == FSub(a, b) IN d.c # 2 /\ d.m < 0

FLe(a, b) ==
    /\ ~IsNaN(a) /\ ~IsNaN(b)
    /\ (a = b \/ FLt(a, b))

(* Largest s with s * s <= n. *)
RECURSIVE ISqrt(_)
ISqrt(n) ==
    IF n = 0 THEN 0
    ELSE LET hi == ISqrt(n \div 4) * 2
         IN  IF (hi + 1) * (hi + 1) <= n THEN hi + 1 ELSE hi

FSqrt(a) ==
    IF IsNaN(a) THEN NaN
    ELSE IF a.c = 1 THEN (IF a.m > 0 THEN a ELSE NaN)
    ELSE IF a.m < 0 THEN NaN
    ELSE IF a.m = 0 THEN Zero
    ELSE LET l  == BitLen(a.m)
             j0 == 2 * Precision + 1 - l
             j  == IF (a.e - j0) % 2 = 0 THEN j0 ELSE j0 + 1
             n  == a.m * Pow2(j)
             s  == ISqrt(n)
             st == IF s * s = n THEN 0 ELSE 1
         IN  Round(2 * s + st, ((a.e - j) \div 2) - 1)

One == FromInt(1)

(* Math.pow(b, x) for x = k/2, k >= 0: b multiplied k \div 2 times, times   *)
(* the square root of b when k is odd, each step rounded.                  *)
RECURSIVE IntPow(_, _)
IntPow(b, n) == IF n = 0 THEN One ELSE FMul(IntPow(b, n - 1), b)

MathPow(b, x) ==
    IF IsNaN(x) THEN NaN
    ELSE IF x = Zero THEN One
    ELSE IF IsNaN(b) THEN NaN
    ELSE LET k == x.m * Pow2(x.e + 1)
         IN  IF k % 2 = 0 THEN IntPow(b, k \div 2)
             ELSE FMul(IntPow(b, k \div 2), FSqrt(b))

(* ~~v: the integer part of v, 0 for NaN and the infinities. *)
Trunc(a) ==
    IF a.c # 0 THEN 0
    ELSE IF a.e >= 0 THEN a.m * Pow2(a.e)
    ELSE IF -a.e > Precision THEN 0
    ELSE Sign(a.m) * (Abs(a.m) \div Pow2(-a.e))

(* Math.min(...arr) and Math.max(...arr): Infinity and -Infinity for the   *)
(* empty array, NaN when any element is NaN.                               *)
RECURSIVE MathMin(_)
MathMin(arr) ==
    IF arr = <<>> THEN Inf(1)
    ELSE LET r == MathMin(Tail(arr))
             v == Head(arr)
         IN  IF IsNaN(v) \/ IsNaN(r) THEN NaN
             ELSE IF FLt(v, r) THEN v ELSE r

RECURSIVE MathMax(_)
MathMax(arr) ==
    IF arr = <<>> THEN Inf(-1)
    ELSE LET r == MathMax(Tail(arr))
             v == Head(arr)
         IN  IF IsNaN(v) \/ IsNaN(r) THEN NaN
             ELSE IF FLt(r, v) THEN v ELSE r

----------------------------------------------------------------------------
(* normaliseBetween dividing by amax where the code divides by the range   *)
(* amax - amin.                                                            *)
normaliseBetweenByMax(arr, min, max) ==
    LET amin == MathMin(arr)
        amax == MathMax(arr)
    IN  [i \in 1..Len(arr) |->
            FAdd(FDiv(FMul(FSub(arr[i], amin), FSub(max, min)), amax), min)]

(* Array.prototype.normaliseBetween *)
normaliseBetween(arr, min, max) ==
    LET amin == MathMin(arr)
        amax == MathMax(arr)
    IN  [i \in 1..Len(arr) |->
            FAdd(FDiv(FMul(FSub(arr[i], amin), FSub(max, min)),
                      FSub(amax, amin)),
                 min)]

(* The base noise function Terrain.noise2D.  A noise source is either      *)
(* constant (k = 0, every sample is v) or seeded (k = 1, seeded with v):   *)
(* a seeded source is a fixed function of the seed and the coordinates     *)
(* with values in [-1, 1].                                                 *)
NoiseValues == <<FromInt(-1), Halves(-1), Zero, Halves(1), FromInt(1)>>

Simplex(src, nx, ny) ==
    IF src.k = 0 THEN src.v
    ELSE IF nx.c # 0 \/ ny.c # 0 THEN NaN
    ELSE NoiseValues[1 + ((Abs(src.v.m) + src.v.e + 3 * Abs(nx.m) + nx.e
                           + 5 * Abs(ny.m) + 2 * ny.e) % 5)]

(* nv, inside Noise: a sample rescaled from [-1, 1] to [0, 1]. *)
nv(src, nx, ny) == FAdd(FDiv(Simplex(src, nx, ny), FromInt(2)), Halves(1))

(* The loop of Noise over the amplitudes: <<e, ampTotal>>. *)
RECURSIVE Octaves(_, _, _, _, _)
Octaves(src, x, y, amplitudes, acc) ==
    IF amplitudes = <<>> THEN acc
    ELSE LET amp == Head(amplitudes)
             ampDiv == FDiv(One, amp)
         IN  Octaves(src, x, y, Tail(amplitudes),
                     <<FAdd(acc[1], FMul(ampDiv, nv(src, FMul(x, amp), FMul(y, amp)))),
                       FAdd(acc[2], ampDiv)>>)

(* Noise(x, y), inside Terrain.generate. *)
Noise(src, x, y, amplitudes, exponent) ==
    LET r == Octaves(src, x, y, amplitudes, <<Zero, Zero>>)
    IN  MathPow(FDiv(r[1], r[2]), exponent)

(* Cell with the column and the row exchanged. *)
CellTransposed(src, lod, i, frequency, exponent, amplitudes) ==
    LET x == i \div Abs(lod)
        y == i % Abs(lod)
        nx == FDiv(FromInt(x), FDiv(FromInt(lod), frequency))
        ny == FDiv(FromInt(y), FDiv(FromInt(lod), frequency))
    IN  Noise(src, nx, ny, amplitudes, exponent)

(* The cell of index i (from 0) of the grid of side lod. *)
Cell(src, lod, i, frequency, exponent, amplitudes) ==
    LET x == i % Abs(lod)
        y == Sign(lod) * (i \div Abs(lod))
        nx == FDiv(FromInt(x), FDiv(FromInt(lod), frequency))
        ny == FDiv(FromInt(y), FDiv(FromInt(lod), frequency))
    IN  Noise(src, nx, ny, amplitudes, exponent)

(* Terrain.generate: the value it stores in Terrain.heightmap.  The seed   *)
(* argument is not read; the noise comes from Terrain.noise2D (src).       *)
generate(src, lod, seed, frequency, exponent, amplitudes, normalise) ==
    LET lod2 == lod * lod
        nvs == [i \in 1..lod2 |-> Cell(src, lod, i - 1, frequency, exponent, amplitudes)]
    IN  IF normalise THEN normaliseBetween(nvs, Zero, One) ELSE nvs

(* The amplitude array of a loop that runs while i <= octv. *)
AmpsInclusive(octv, ampl) ==
    [i \in 1..(octv + 1) |-> FAdd(One, FMul(FromInt(i - 1), ampl))]

(* The amplitude array built by updateVars. *)
RECURSIVE Amps(_, _)
Amps(octv, ampl) ==
    IF octv <= 1 THEN <<One>>
    ELSE LET amps == Amps(octv - 1, ampl)
         IN  Append(amps, FAdd(amps[Len(amps)], ampl))

(* Interface.updateHeightmap: the grey level of every pixel. *)
updateHeightmap(heightmap) ==
    [i \in 1..Len(heightmap) |-> Trunc(FMul(heightmap[i], FromInt(255))) % 256]

(* Math.floor(a), for finite a. *)
MathFloor(a) ==
    IF a.e >= 0 THEN a.m * Pow2(a.e)
    ELSE IF -a.e > 2 * Precision THEN (IF a.m < 0 THEN -1 ELSE 0)
    ELSE a.m \div Pow2(-a.e)

(* Math.round(a), for finite a: the nearest integer, halves upwards. *)
MathRound(a) ==
    IF a.e >= 0 THEN a.m * Pow2(a.e)
    ELSE IF -a.e > 2 * Precision THEN 0
    ELSE (2 * a.m + Pow2(-a.e)) \div Pow2(1 - a.e)

(* Math.max(a, b) and Math.min(a, b) *)
Max2(a, b) == IF IsNaN(a) \/ IsNaN(b) THEN NaN ELSE IF FLt(a, b) THEN b ELSE a

IntMax(a, b) == IF a < b THEN b ELSE a

IntMin(a, b) == IF a < b THEN a ELSE b

----------------------------------------------------------------------------
(* Bounds of the model. *)

(* The level of detail is clamped to [128, 512] by the code; the model     *)
(* clamps to [MinLod, MaxLod].                                             *)
MinLod == 2

MaxLod == 2

(* Frames are modelled up to this time, in milliseconds. *)
MaxTime == 10000

(* Longest array given to normaliseBetween on its own. *)
MaxLen == 3

(* The Octaves slider's maximum. *)
MaxOctaves == 10

(* The decimal literal n/d. *)
Dec(n, d) == FDiv(FromInt(n), FromInt(d))

(* Results of Math.random(), in [0, 1), for the seed of the object literal  *)
(* and of a click.                                                          *)
RandomDraws == {Round(993, -10)}

(* The five draws of one presentation-mode randomisation: for the seed,    *)
(* the octaves, the amplitude, the frequency and the exponent.             *)
TickDraws ==
    {<<Zero, Zero, Zero, Zero, Zero>>,
     <<Round(993, -10), Round(993, -10), Round(993, -10), Round(993, -10), Round(993, -10)>>}

(* Positions the user drags the sliders to (dat.gui keeps a slider inside  *)
(* its min, max and step).                                                 *)
SeedPositions == {FromInt(1)}

OctvPositions == {1}

HalfStepPositions == {FromInt(1)}

(* location.hash without its '#': empty, or a number. *)
HashInputs == {<<>>, <<0>>, <<3>>, <<1000>>}

(* Time between two frames. *)
FrameDeltas == {2500, 5000}

----------------------------------------------------------------------------
VARIABLES
    pc,          \* "boot" before the start-up sequence has run, then "running";
                 \* for a function called on its own, its name, then its
                 \* name and "returned"
    vars,        \* Interface.vars
    timestamp,   \* Interface.timestamp
    time,        \* the time of the last frame
    lod,         \* Terrain.lod
    noise2D,     \* Terrain.noise2D, as its noise source
    heightmap,   \* Terrain.heightmap
    canvas,      \* the grey levels painted on the heightmap canvas
    call,        \* the arguments of the last call of Terrain.generate
    first,       \* the first call of Terrain.generate, what it stored, and
                 \* whether generate has been called since (calls = 2)
    arg,         \* the arguments of a function called on its own
    ret          \* what it returned

state == <<pc, vars, timestamp, time, lod, noise2D, heightmap, canvas, call, first, arg, ret>>

NoCall == [seed |-> Zero, frequency |-> Zero, exponent |-> Zero,
           amplitudes |-> <<>>, normalise |-> FALSE]

(* createNoise2D(Alea(seed)) *)
Seeded(seed) == [k |-> 1, v |-> seed]

(* A noise function that returns c everywhere. *)
Constant(c) == [k |-> 0, v |-> c]

(* const lod = Math.max(128, Math.min(window.location.hash.substring(1) || 128, 512)) *)
LodOf(hash) ==
    IntMax(MinLod, IntMin(IF hash = <<>> THEN MinLod ELSE hash[1], MaxLod))

(* Interface.vars as the object literal sets it. *)
InitialVars(r) ==
    [octv |-> 6, freq |-> FromInt(2), expn |-> FromInt(4), ampl |-> FromInt(4),
     seed |-> FMul(r, FromInt(1000)), norm |-> TRUE, prst |-> TRUE]

Init ==
    /\ pc = "boot"
    /\ \E r \in RandomDraws : vars = InitialVars(r)
    /\ timestamp = 0
    /\ time = 0
    /\ lod = 0
    /\ \E r \in RandomDraws : noise2D = Seeded(r)
    /\ heightmap = <<>>
    /\ canvas = <<>>
    /\ call = NoCall
    /\ first = [call |-> NoCall, out |-> <<>>, calls |-> 0]
    /\ arg = <<>>
    /\ ret = <<>>

(* updateVars, for Interface.vars = v, Terrain.noise2D = src and           *)
(* Terrain.lod = l.                                                        *)
updateVars(v, src, l) ==
    /\ call' = [seed |-> v.seed, frequency |-> v.freq, exponent |-> v.expn,
                amplitudes |-> Amps(v.octv, v.ampl), normalise |-> v.norm]
    /\ heightmap' = generate(src, l, call'.seed, call'.frequency, call'.exponent,
                             call'.amplitudes, call'.normalise)
    /\ canvas' = updateHeightmap(heightmap')
    /\ first' = IF first.calls = 0
                THEN [call |-> call', out |-> heightmap', calls |-> 1]
                ELSE [first EXCEPT !.calls = IntMin(first.calls + 1, 2)]

(* updateSeed creating the noise function without the seed, as the        *)
(* initialiser of Terrain.noise2D does: another function at every call.    *)
updateSeedFresh(v, l) ==
    /\ noise2D' = [k |-> 1, v |-> FAdd(noise2D.v, One)]
    /\ updateVars(v, noise2D', l)

(* updateSeed keeping the noise function it finds. *)
updateSeedStale(v, l) ==
    /\ noise2D' = noise2D
    /\ updateVars(v, noise2D, l)

(* updateSeed *)
updateSeed(v, l) ==
    /\ noise2D' = Seeded(v.seed)
    /\ updateVars(v, noise2D', l)

(* The start-up sequence: Interface.init, Viewer.init, Terrain.init,       *)
(* updateSeed, and the first Viewer.render(), whose time is undefined.     *)
Startup ==
    /\ pc = "boot"
    /\ pc' = "running"
    /\ \E hash \in HashInputs : lod' = LodOf(hash)
    /\ updateSeed(vars, lod')
    /\ UNCHANGED <<vars, timestamp, time, arg, ret>>

(* Click on the heightmap canvas. *)
HeightmapClick ==
    /\ pc = "running"
    /\ \E r \in RandomDraws :
          vars' = [vars EXCEPT !.seed = FMul(r, FromInt(1000))]
    /\ updateSeed(vars', lod)
    /\ UNCHANGED <<pc, timestamp, time, lod, arg, ret>>

(* The seed slider. *)
SeedChange ==
    /\ pc = "running"
    /\ \E s \in SeedPositions : vars' = [vars EXCEPT !.seed = s]
    /\ updateSeed(vars', lod)
    /\ UNCHANGED <<pc, timestamp, time, lod, arg, ret>>

(* The Normalise checkbox. *)
NormChange ==
    /\ pc = "running"
    /\ vars' = [vars EXCEPT !.norm = ~vars.norm]
    /\ updateSeed(vars', lod)
    /\ UNCHANGED <<pc, timestamp, time, lod, arg, ret>>

(* The Presentation Mode checkbox: no handler. *)
PrstChange ==
    /\ pc = "running"
    /\ vars' = [vars EXCEPT !.prst = ~vars.prst]
    /\ UNCHANGED <<pc, timestamp, time, lod, noise2D, heightmap, canvas, call,
                   first, arg, ret>>

(* The Octaves, Amplitude, Frequency and Exponent sliders. *)
OctvChange ==
    /\ pc = "running"
    /\ \E n \in OctvPositions : vars' = [vars EXCEPT !.octv = n]
    /\ updateVars(vars', noise2D, lod)
    /\ UNCHANGED <<pc, timestamp, time, lod, noise2D, arg, ret>>

AmplChange ==
    /\ pc = "running"
    /\ \E a \in HalfStepPositions : vars' = [vars EXCEPT !.ampl = a]
    /\ updateVars(vars', noise2D, lod)
    /\ UNCHANGED <<pc, timestamp, time, lod, noise2D, arg, ret>>

FreqChange ==
    /\ pc = "running"
    /\ \E a \in HalfStepPositions : vars' = [vars EXCEPT !.freq = a]
    /\ updateVars(vars', noise2D, lod)
    /\ UNCHANGED <<pc, timestamp, time, lod, noise2D, arg, ret>>

ExpnChange ==
    /\ pc = "running"
    /\ \E a \in HalfStepPositions : vars' = [vars EXCEPT !.expn = a]
    /\ updateVars(vars', noise2D, lod)
    /\ UNCHANGED <<pc, timestamp, time, lod, noise2D, arg, ret>>

(* RandomHalfStep without Math.max(1, ...). *)
RandomHalfStepUnclamped(r) ==
    Halves(MathRound(FMul(FMul(r, FromInt(10)), FromInt(2))))

(* Math.max(1, Math.round((Math.random() * 10) * 2) / 2) *)
RandomHalfStep(r) ==
    Max2(One, Halves(MathRound(FMul(FMul(r, FromInt(10)), FromInt(2)))))

(* The parameters after a randomisation with the draws d. *)
Randomised(v, d) ==
    [v EXCEPT !.seed = FromInt(MathFloor(FMul(d[1], FromInt(1000))) + 1),
              !.octv = MathFloor(FMul(d[2], FromInt(10))) + 1,
              !.ampl = RandomHalfStep(d[3]),
              !.freq = RandomHalfStep(d[4]),
              !.expn = RandomHalfStep(d[5])]

(* Due without the test of the presentation mode. *)
DueIgnoringMode(prst, t, ts) == t - ts >= 5000

(* Whether update(t) randomises, in presentation mode prst and with        *)
(* Interface.timestamp = ts.                                               *)
Due(prst, t, ts) == prst /\ t - ts >= 5000

(* update(time), called by Viewer.render for every frame. *)
update(t) ==
    IF Due(vars.prst, t, timestamp)
    THEN /\ timestamp' = t
         /\ \E d \in TickDraws : vars' = Randomised(vars, d)
         /\ updateSeed(vars', lod)
    ELSE UNCHANGED <<vars, timestamp, noise2D, heightmap, canvas, call, first>>

(* A frame: Viewer.render(time). *)
Frame ==
    /\ pc = "running"
    /\ \E d \in FrameDeltas :
          /\ time + d <= MaxTime
          /\ time' = time + d
          /\ update(time')
    /\ UNCHANGED <<pc, lod, arg, ret>>

Next ==
    \/ Startup
    \/ HeightmapClick
    \/ SeedChange
    \/ NormChange
    \/ PrstChange
    \/ OctvChange
    \/ AmplChange
    \/ FreqChange
    \/ ExpnChange
    \/ Frame

Spec == Init /\ [][Next]_state

----------------------------------------------------------------------------
(* The functions on their own: normaliseBetween on any array and range,    *)
(* the amplitude schedule for any octaves and step, and Terrain.generate   *)
(* on any level of detail, noise function and arguments.                   *)

ArrayValues == {Zero, One, FromInt(5), Dec(1, 10), Dec(7, 10)}

RangeValues == {Zero, One, Dec(1, 10), FromInt(4)}

Arrays == UNION {[1..n -> ArrayValues] : n \in 1..MaxLen}

(* Amplitude steps: the multiples of 0.5 from -1 to 10. *)
StepInputs == {Halves(n) : n \in -2..20}

LodInputs == 0..MinLod

NoiseSources ==
    {Constant(Halves(1)), Constant(FromInt(-1)), Seeded(FromInt(1)), Seeded(FromInt(970))}

FrequencyInputs == {Zero, One, Halves(3)}

ExponentInputs == {One, Halves(3)}

ScheduleInputs == {Amps(1, One), Amps(2, Halves(3)), Amps(3, One)}

InitPure ==
    /\ vars = InitialVars(Zero)
    /\ timestamp = 0
    /\ time = 0
    /\ canvas = <<>>
    /\ first = [call |-> NoCall, out |-> <<>>, calls |-> 0]
    /\ heightmap = <<>>
    /\ call = NoCall
    /\ ret = <<>>
    /\ \/ /\ pc = "normaliseBetween"
          /\ \E a \in Arrays, min \in RangeValues, max \in RangeValues :
                /\ FLe(min, max)
                /\ arg = [arr |-> a, min |-> min, max |-> max]
          /\ lod = 0
          /\ noise2D = Seeded(Zero)
       \/ /\ pc = "updateVars"
          /\ \E o \in 1..MaxOctaves, a \in StepInputs : arg = [octv |-> o, ampl |-> a]
          /\ lod = 0
          /\ noise2D = Seeded(Zero)
       \/ /\ pc = "generate"
          /\ arg = <<>>
          /\ lod \in LodInputs
          /\ noise2D \in NoiseSources

(* arr.normaliseBetween(min, max) *)
CallNormaliseBetween ==
    /\ pc = "normaliseBetween"
    /\ pc' = "normaliseBetween returned"
    /\ ret' = normaliseBetween(arg.arr, arg.min, arg.max)
    /\ UNCHANGED <<vars, timestamp, time, lod, noise2D, heightmap, canvas, call, first, arg>>

(* The amplitude array of updateVars. *)
BuildAmps ==
    /\ pc = "updateVars"
    /\ pc' = "updateVars returned"
    /\ ret' = Amps(arg.octv, arg.ampl)
    /\ UNCHANGED <<vars, timestamp, time, lod, noise2D, heightmap, canvas, call, first, arg>>

(* Terrain.generate(seed, frequency, exponent, amplitudes, normalise) *)
CallGenerate ==
    /\ pc = "generate"
    /\ \E f \in FrequencyInputs, x \in ExponentInputs, a \in ScheduleInputs, n \in BOOLEAN :
          call' = [seed |-> noise2D.v, frequency |-> f, exponent |-> x,
                   amplitudes |-> a, normalise |-> n]
    /\ heightmap' = generate(noise2D, lod, call'.seed, call'.frequency, call'.exponent,
                             call'.amplitudes, call'.normalise)
    /\ UNCHANGED <<pc, vars, timestamp, time, lod, noise2D, canvas, first, arg, ret>>

NextPure ==
    \/ CallNormaliseBetween
    \/ BuildAmps
    \/ CallGenerate

SpecPure == InitPure /\ [][NextPure]_state

----------------------------------------------------------------------------
(* Properties of the functions on their own (SpecPure).                    *)

AllEqual(arr) == \A i, j \in 1..Len(arr) : arr[i] = arr[j]

AllFinite(arr) == \A i \in 1..Len(arr) : IsFinite(arr[i])

Within(arr, lo, hi) == \A i \in 1..Len(arr) : FLe(lo, arr[i]) /\ FLe(arr[i], hi)

Has(arr, v) == \E i \in 1..Len(arr) : arr[i] = v

(* generate's values before the normalisation of the last call *)
Unnormalised ==
    generate(noise2D, lod, call.seed, call.frequency, call.exponent, call.amplitudes, FALSE)

(* C3: normaliseBetween of a constant, non-empty array returns an array of *)
(* the same length without any NaN.                                        *)
C3_ConstantInput ==
    (pc = "normaliseBetween returned" /\ AllEqual(arg.arr))
        => /\ Len(ret) = Len(arg.arr)
           /\ \A i \in 1..Len(ret) : ~IsNaN(ret[i])

C7_SingleOctave ==
    (pc = "generate" /\ call # NoCall /\ call.amplitudes = <<One>>
        /\ ~call.normalise /\ lod >= 1)
        => /\ Len(heightmap) = lod * lod
           /\ \A i \in 0..(lod * lod - 1) :
                 LET x == FromInt(i % lod)
                     y == FromInt(i \div lod)
                     scale == FDiv(FromInt(lod), call.frequency)
                     n == Simplex(noise2D, FDiv(x, scale), FDiv(y, scale))
                 IN  heightmap[i + 1] =
                        MathPow(FAdd(FDiv(n, FromInt(2)), Halves(1)), call.exponent)
           /\ (noise2D = Constant(Halves(1)) /\ lod = 2
                  /\ call.frequency = One /\ call.exponent = One)
                 => \A i \in 1..4 : heightmap[i] = Dec(3, 4)

C7_Reached ==
    /\ pc = "generate" /\ call # NoCall /\ call.amplitudes = <<One>>
    /\ ~call.normalise /\ lod >= 2
    /\ noise2D.k = 1
    /\ call.frequency = Halves(3) /\ call.exponent = Halves(3)
    /\ ~AllEqual(heightmap)

(* C1: for a level of detail >= 1, a frequency >= 1, an exponent >= 1 and  *)
(* 1 to 10 amplitudes, generate stores lod * lod finite numbers, also when *)
(* the noise is constant.                                                  *)
C1_FiniteGrid ==
    (pc = "generate" /\ call # NoCall /\ lod >= 1
        /\ FLe(One, call.frequency) /\ FLe(One, call.exponent)
        /\ Len(call.amplitudes) \in 1..MaxOctaves)
        => Len(heightmap) = lod * lod /\ AllFinite(heightmap)

(* C6: a call of generate with a level of detail < 1 or a frequency <= 0   *)
(* leaves the stored heightmap as it was.                                  *)
C6_InvalidRejected ==
    [][(pc = "generate" /\ (lod < 1 \/ FLe(call'.frequency, Zero)))
          => heightmap' = heightmap]_state

----------------------------------------------------------------------------
(* Properties of the application (Spec).                                   *)

(* A multiple of 0.5 *)
IsHalfStep(a) == IsFinite(a) /\ (a.m = 0 \/ a.e >= -1)

(* A slider value between lo and 10 in steps of 0.5 *)
InSlider(a, lo) == IsHalfStep(a) /\ FLe(lo, a) /\ FLe(a, FromInt(10))

(* C8: in every state octv is an integer in [1, 10], freq and expn are in  *)
(* [1, 10], ampl is in [0.5, 10], each a multiple of 0.5, and every call   *)
(* of generate was made with a frequency >= 1, an exponent >= 1 and 1 to   *)
(* 10 amplitudes.                                                          *)
C8_ParametersInDomain ==
    /\ vars.octv \in 1..MaxOctaves
    /\ InSlider(vars.freq, One)
    /\ InSlider(vars.expn, One)
    /\ InSlider(vars.ampl, Halves(1))
    /\ call # NoCall
          => /\ InSlider(call.frequency, One)
             /\ InSlider(call.exponent, One)
             /\ Len(call.amplitudes) \in 1..MaxOctaves

C8_Reached ==
    /\ pc = "running"
    /\ timestamp > 0
    /\ vars.octv = 1 /\ vars.freq = One /\ vars.expn = One /\ vars.ampl = One
    /\ call.frequency = One /\ call.amplitudes = <<One>>

(* C9: once started, the noise function is the one seeded with the current *)
(* seed, the heightmap is what generate gives with it for the current      *)
(* octv, ampl, freq, expn and norm, and the canvas shows that heightmap.   *)
C9_HeightmapCurrent ==
    pc = "running"
        => /\ noise2D = Seeded(vars.seed)
           /\ heightmap = generate(Seeded(vars.seed), lod, vars.seed, vars.freq,
                                   vars.expn, Amps(vars.octv, vars.ampl), vars.norm)
           /\ canvas = updateHeightmap(heightmap)

C9_Reached ==
    /\ pc = "running"
    /\ timestamp > 0
    /\ first.calls = 2
    /\ vars.seed = FromInt(970)
    /\ ~vars.norm
    /\ vars.ampl = One
    /\ ~AllEqual(heightmap)

(* C5: a call of generate with the seed and the arguments of the first     *)
(* call stores the heightmap the first call stored, whatever calls were    *)
(* made in between.                                                        *)
C5_Deterministic ==
    (first.calls > 0 /\ call = first.call) => heightmap = first.out

C5_Reached ==
    /\ pc = "running"
    /\ first.calls = 2
    /\ call = first.call
    /\ heightmap = first.out
    /\ ~AllEqual(heightmap)

(* C10: the timestamp changes only in a frame in presentation mode whose   *)
(* time is at least 5000 after it, and becomes that time, so at least 5000 *)
(* later; such a frame randomises the parameters and regenerates the       *)
(* heightmap; every other frame leaves the parameters, the timestamp and   *)
(* the heightmap as they were.                                             *)
C10_Randomisation ==
    [][/\ timestamp' # timestamp
             => /\ vars.prst
                /\ time' - timestamp >= 5000
                /\ timestamp' = time'
                /\ timestamp' - timestamp >= 5000
       /\ (time' # time /\ vars.prst /\ time' - timestamp >= 5000)
             => /\ timestamp' = time'
                /\ \E d \in TickDraws : vars' = Randomised(vars, d)
                /\ heightmap' = generate(Seeded(vars'.seed), lod, vars'.seed, vars'.freq,
                                         vars'.expn, Amps(vars'.octv, vars'.ampl),
                                         vars'.norm)
       /\ (time' # time /\ ~(vars.prst /\ time' - timestamp >= 5000))
             => UNCHANGED <<vars, timestamp, heightmap>>]_state

C10_Reached ==
    /\ timestamp >= 10000
    /\ time = timestamp
    /\ vars.octv = MaxOctaves

====
